---------------------------- MODULE Spec2Model ----------------------------
(***************************************************************************)
(* A model of Baseline/data/transition.py (class TransitionLoader).        *)
(*                                                                         *)
(* Python objects live in a heap: a sequence of dict and list objects      *)
(* whose address is their index.  A value is a string (a sequence of       *)
(* one-character strings), an int, a float literal, None, or a reference   *)
(* to a heap object.  Dicts are insertion-ordered sequences of <<key,      *)
(* value>> pairs, as in CPython.  Every function of the class is an        *)
(* operator from a heap and arguments to a heap, a returned value and the  *)
(* exception raised ("" when the call returns).                            *)
(***************************************************************************)
EXTENDS Integers, Sequences, FiniteSets, TLC

VARIABLES
    heap,           \* the objects allocated so far
    data,           \* what load_json_data returned: a reference, or None
    file,           \* the JSON text that was loaded, as a nested value
    difference,     \* self.difference
    sequence_data,  \* the list collate_sequence_data returned last
    call,           \* the last call made: its name, arguments, result
    ncalls          \* the number of calls made so far

vars == <<heap, data, file, difference, sequence_data, call, ncalls>>

---------------------------------------------------------------------------
(* Values *)

Str(s) == [t |-> "str", s |-> s]
Num(n) == [t |-> "int", n |-> n]
Float(f) == [t |-> "float", f |-> f]
None == [t |-> "NoneType"]
Ref(a) == [t |-> "ref", a |-> a]
List(items) == [t |-> "list", items |-> items]
Dict(items) == [t |-> "dict", items |-> items]

IsStr(v) == v.t = "str"
IsNone(v) == v.t = "NoneType"
IsRef(v) == v.t = "ref"

(* String literals of the source, as character sequences *)
S_card_id == <<"c", "a", "r", "d", "_", "i", "d">>
S_card_name == <<"c", "a", "r", "d", "_", "n", "a", "m", "e">>
S_card_description ==
    <<"c", "a", "r", "d", "_", "d", "e", "s", "c", "r", "i", "p", "t", "i", "o", "n">>
S_tags == <<"t", "a", "g", "s">>
S_named_tags == <<"n", "a", "m", "e", "d", "_", "t", "a", "g", "s">>
S_entity == <<"e", "n", "t", "i", "t", "y">>
S_type == <<"t", "y", "p", "e">>
S_metadata == <<"m", "e", "t", "a", "d", "a", "t", "a">>
S_result == <<"r", "e", "s", "u", "l", "t">>
S_sequence == <<"s", "e", "q", "u", "e", "n", "c", "e">>
S_state == <<"s", "t", "a", "t", "e">>
S_action == <<"a", "c", "t", "i", "o", "n">>
S_option == <<"o", "p", "t", "i", "o", "n">>

---------------------------------------------------------------------------
(* Sequence helpers *)

\* The concatenation of the sequences ss[lo], ..., ss[hi], by halves
RECURSIVE ConcatRange(_, _, _)
ConcatRange(ss, lo, hi) ==
    IF lo > hi THEN <<>>
    ELSE IF lo = hi THEN ss[lo]
    ELSE LET mid == (lo + hi) \div 2
         IN  ConcatRange(ss, lo, mid) \o ConcatRange(ss, mid + 1, hi)

Concat(ss) == ConcatRange(ss, 1, Len(ss))

\* sep.join(ss)
Join(ss, sep) ==
    Concat([i \in 1..Len(ss) |-> IF i = 1 THEN ss[i] ELSE sep \o ss[i]])

Min(a, b) == IF a < b THEN a ELSE b

\* TLC hands an operator its arguments unevaluated.  A loop that threads a heap
\* or an accumulator evaluates it at every step, which keeps TLC's evaluation
\* stack shallow; Evaluated(x) is TRUE.
Evaluated(x) == x = x

(* int(s) and str(n) for decimal strings *)
Digits == <<"0", "1", "2", "3", "4", "5", "6", "7", "8", "9">>
DigitVal(c) == (CHOOSE i \in 1..10 : Digits[i] = c) - 1

RECURSIVE IntOfDigits(_, _)
IntOfDigits(s, acc) ==
    IF Evaluated(acc) /\ s = <<>> THEN acc ELSE IntOfDigits(Tail(s), 10 * acc + DigitVal(Head(s)))

IntOfStr(s) ==
    IF s # <<>> /\ Head(s) = "-" THEN 0 - IntOfDigits(Tail(s), 0)
    ELSE IntOfDigits(s, 0)

RECURSIVE StrOfNat(_)
StrOfNat(n) ==
    IF n < 10 THEN <<Digits[n + 1]>>
    ELSE StrOfNat(n \div 10) \o <<Digits[(n % 10) + 1]>>

StrOfInt(n) == IF n < 0 THEN <<"-">> \o StrOfNat(0 - n) ELSE StrOfNat(n)

(* int(v) for a value that is an int or a decimal string *)
PyInt(v) == IF v.t = "int" THEN v.n ELSE IntOfStr(v.s)

---------------------------------------------------------------------------
(* Dicts *)

HasKey(d, k) == \E i \in 1..Len(d.items) : d.items[i][1] = k
KeyIndex(d, k) == CHOOSE i \in 1..Len(d.items) : d.items[i][1] = k
KeyError == [t |-> "KeyError"]
IsKeyError(v) == v.t = "KeyError"
\* d[k]
GetItem(d, k) == IF HasKey(d, k) THEN d.items[KeyIndex(d, k)][2] ELSE KeyError
\* d[k] = v
SetItem(d, k, v) ==
    IF HasKey(d, k)
    THEN Dict([d.items EXCEPT ![KeyIndex(d, k)] = <<k, v>>])
    ELSE Dict(Append(d.items, <<k, v>>))
\* d.pop(k, None)
PopItem(d, k) ==
    IF HasKey(d, k)
    THEN LET i == KeyIndex(d, k)
         IN  Dict(SubSeq(d.items, 1, i - 1) \o SubSeq(d.items, i + 1, Len(d.items)))
    ELSE d
\* list(d)
KeyList(d) == [i \in 1..Len(d.items) |-> d.items[i][1]]

---------------------------------------------------------------------------
(* The heap *)

Alloc(h, obj) == [heap |-> Append(h, obj), ret |-> Ref(Len(h) + 1)]

\* The nested value a value stands for: references replaced by their objects.
RECURSIVE Val(_, _)
Val(h, v) ==
    IF ~IsRef(v) THEN v
    ELSE LET o == h[v.a]
         IN  IF o.t = "list"
             THEN List([i \in 1..Len(o.items) |-> Val(h, o.items[i])])
             ELSE Dict([i \in 1..Len(o.items) |->
                            <<o.items[i][1], Val(h, o.items[i][2])>>])

\* Fresh objects for a nested value: what json.load and copy.deepcopy build.
RECURSIVE Build(_, _)
RECURSIVE BuildAll(_, _, _)
BuildAll(h, vs, acc) ==
    IF Evaluated(h) /\ Evaluated(acc) /\ vs = <<>> THEN [heap |-> h, ret |-> acc]
    ELSE LET Then(b) == BuildAll(b.heap, Tail(vs), Append(acc, b.ret))
         IN  Then(Build(h, Head(vs)))
Build(h, v) ==
    IF v.t = "list"
    THEN LET Then(b) == Alloc(b.heap, List(b.ret))
         IN  Then(BuildAll(h, v.items, <<>>))
    ELSE IF v.t = "dict"
    THEN LET Then(b) ==
                 Alloc(b.heap,
                       Dict([i \in 1..Len(v.items) |-> <<v.items[i][1], b.ret[i]>>]))
         IN  Then(BuildAll(h, [i \in 1..Len(v.items) |-> v.items[i][2]], <<>>))
    ELSE [heap |-> h, ret |-> v]

nocopy(h, v) == [heap |-> h, ret |-> v]
deepcopy(h, v) == Build(h, Val(h, v))

---------------------------------------------------------------------------
(* definition/GAME_TAG.py, definition/TAG_ZONE.py, definition/OPTION_TYPE.py: *)
(* the numbering of the game's log protocol                                   *)

GAME_TAG_ENTITY_ID == 53
GAME_TAG_HEALTH == 45
GAME_TAG_ATK == 47
GAME_TAG_COST == 48
GAME_TAG_ARMOR == 292
GAME_TAG_ZONE == 49
GAME_TAG_CONTROLLER == 50
GAME_TAG_CLASS == 199
GAME_TAG_CARDRACE == 200
GAME_TAG_CARDTYPE == 202
GAME_TAG_SECRET == 219
GAME_TAG_ZONE_POSITION == 263
GAME_TAG_EXHAUSTED == 43
TAG_READY == 1000

TAG_ZONE_PLAY == 1
TAG_ZONE_DECK == 2
TAG_ZONE_HAND == 3
TAG_ZONE_SECRET == 7

OPTION_TYPE_END_TURN == 2
OPTION_TYPE_POWER == 3

\* OPERABLE_GAME_TAG()[n]: the name of tag n
tag_map(n) ==
    CASE n = GAME_TAG_ENTITY_ID -> <<"e", "n", "t", "i", "t", "y", "_", "i", "d">>
      [] n = GAME_TAG_HEALTH -> <<"h", "e", "a", "l", "t", "h">>
      [] n = GAME_TAG_ZONE -> <<"z", "o", "n", "e">>
      [] n = TAG_READY -> <<"r", "e", "a", "d", "y">>
      [] OTHER -> <<"t", "a", "g", "_">> \o StrOfInt(n)

zone == {TAG_ZONE_SECRET, TAG_ZONE_HAND, TAG_ZONE_PLAY}

scope == {GAME_TAG_ENTITY_ID, GAME_TAG_HEALTH, GAME_TAG_ATK, GAME_TAG_COST,
          GAME_TAG_ARMOR, GAME_TAG_ZONE, GAME_TAG_CONTROLLER, GAME_TAG_CLASS,
          GAME_TAG_CARDRACE, GAME_TAG_CARDTYPE, GAME_TAG_SECRET,
          GAME_TAG_ZONE_POSITION}

---------------------------------------------------------------------------
(* preprocess_state *)

\* A condition of the filter: "True", "False", or the exception it raises.
LenIsZero(v) ==
    IF IsKeyError(v) THEN "KeyError"
    ELSE IF ~IsStr(v) THEN "TypeError"
    ELSE IF Len(v.s) = 0 THEN "True" ELSE "False"

IsNoneCond(v) ==
    IF IsKeyError(v) THEN "KeyError"
    ELSE IF IsNone(v) THEN "True" ELSE "False"

\* a or b, b evaluated only when a is false
OrElse(a, b) == IF a = "False" THEN b ELSE a

ZoneCond(h, e) ==
    LET tags == GetItem(e, S_tags)
        key == StrOfInt(GAME_TAG_ZONE)
    IN  IF IsKeyError(tags) THEN "KeyError"
        ELSE IF HasKey(h[tags.a], key)
                  /\ PyInt(GetItem(h[tags.a], key)) \notin zone
        THEN "True" ELSE "False"

\* The condition under "not" in the comprehension of line 64, for entity object e.
Invalid(h, e) ==
    OrElse(LenIsZero(GetItem(e, S_card_name)),
    OrElse(LenIsZero(GetItem(e, S_card_description)),
    OrElse(LenIsZero(GetItem(e, S_card_id)),
    OrElse(IsNoneCond(GetItem(e, S_card_id)),
           ZoneCond(h, e)))))

\* [copy.deepcopy(entity) for entity in state if not (...)]
RECURSIVE CopyValid(_, _, _)
CopyValid(h, es, acc) ==
    IF Evaluated(h) /\ Evaluated(acc) /\ es = <<>>
    THEN [heap |-> h, ret |-> acc, exc |-> ""]
    ELSE LET Copied(d) == CopyValid(d.heap, Tail(es), Append(acc, d.ret))
             Filtered(c) ==
                 IF c = "True" THEN CopyValid(h, Tail(es), acc)
                 ELSE IF c = "False" THEN Copied(deepcopy(h, Head(es)))
                 ELSE [heap |-> h, ret |-> acc, exc |-> c]
         IN  Filtered(Invalid(h, h[Head(es).a]))

\* operable = [int(item["entity"]) for item in option]
Operable(h, option) ==
    {PyInt(GetItem(h[h[option.a].items[i].a], S_entity)) :
        i \in 1..Len(h[option.a].items)}

\* (the loop of lines 74-80 without the pop of line 77)
RECURSIVE TagLoopNoPop(_, _, _, _)
TagLoopNoPop(d, keys, operable, strip) ==
    IF Evaluated(d) /\ keys = <<>> THEN d
    ELSE LET tag == Head(keys)
             d1 == IF IntOfStr(tag) \notin scope THEN d
                   ELSE IF IntOfStr(tag) = GAME_TAG_ENTITY_ID
                   THEN IF PyInt(GetItem(d, tag)) \in operable
                        THEN SetItem(d, StrOfInt(TAG_READY), Str(<<"1">>))
                        ELSE d
                   ELSE d
         IN  TagLoopNoPop(d1, Tail(keys), operable, strip)

\* The loop of lines 74-80 over list(entity["tags"]), on the tags dict d.
RECURSIVE TagLoop(_, _, _, _)
TagLoop(d, keys, operable, strip) ==
    IF Evaluated(d) /\ keys = <<>> THEN d
    ELSE LET tag == Head(keys)
             d1 == IF IntOfStr(tag) \notin scope
                   THEN IF strip THEN PopItem(d, tag) ELSE d
                   ELSE IF IntOfStr(tag) = GAME_TAG_ENTITY_ID
                   THEN IF PyInt(GetItem(d, tag)) \in operable
                        THEN SetItem(d, StrOfInt(TAG_READY), Str(<<"1">>))
                        ELSE d
                   ELSE d
         IN  TagLoop(d1, Tail(keys), operable, strip)

\* The loop of lines 83-84: named_tags[str(tag_map[int(tag)])] = tags[tag]
RECURSIVE NameLoop(_, _, _)
NameLoop(d, keys, named) ==
    IF Evaluated(named) /\ keys = <<>> THEN named
    ELSE NameLoop(d, Tail(keys),
                  SetItem(named, tag_map(IntOfStr(Head(keys))), GetItem(d, Head(keys))))

\* The body of the loop of line 70 for the entity at address a.
StripEntity(h, a, operable, strip) ==
    LET Named(e1, tags, d, n) ==
            [heap |-> [n.heap EXCEPT
                          ![a] = PopItem(SetItem(e1, S_named_tags, n.ret), S_tags),
                          ![tags.a] = d],
             exc |-> ""]
        Tagged(e1, tags, d) ==
            Named(e1, tags, d, Alloc(h, NameLoop(d, KeyList(d), Dict(<<>>))))
        Popped(e1, tags) ==
            IF IsKeyError(tags) THEN [heap |-> [h EXCEPT ![a] = e1], exc |-> "KeyError"]
            ELSE Tagged(e1, tags,
                        TagLoop(h[tags.a], KeyList(h[tags.a]), operable, strip))
    IN  Popped(PopItem(PopItem(h[a], S_card_id), S_card_name), GetItem(h[a], S_tags))

RECURSIVE StripAll(_, _, _, _)
StripAll(h, es, operable, strip) ==
    IF Evaluated(h) /\ es = <<>> THEN [heap |-> h, exc |-> ""]
    ELSE LET Then(s) == IF s.exc # "" THEN s
                        ELSE StripAll(s.heap, Tail(es), operable, strip)
         IN  Then(StripEntity(h, Head(es).a, operable, strip))

\* preprocess_state(state, option, strip): state and option are references to lists.
preprocess_state(h, state, option, strip) ==
    LET Stripped(l, s) ==
            [heap |-> s.heap, ret |-> IF s.exc = "" THEN l.ret ELSE None, exc |-> s.exc]
        Listed(c, l) == Stripped(l, StripAll(l.heap, c.ret, Operable(h, option), strip))
        Filtered(c) ==
            IF c.exc # "" THEN [heap |-> c.heap, ret |-> None, exc |-> c.exc]
            ELSE Listed(c, Alloc(c.heap, List(c.ret)))
    IN  Filtered(CopyValid(h, h[state.a].items, <<>>))

---------------------------------------------------------------------------
(* calculate_difference *)

\* {entity["tags"][str(GAME_TAG.ENTITY_ID)]: entity["tags"] for entity in state}:
\* a dict from the ENTITY_ID value to the reference of the tags dict.
RECURSIVE TagsById(_, _, _)
TagsById(h, es, acc) ==
    IF Evaluated(acc) /\ es = <<>> THEN [ret |-> acc, exc |-> ""]
    ELSE LET tags == GetItem(h[Head(es).a], S_tags)
         IN  IF IsKeyError(tags) THEN [ret |-> acc, exc |-> "KeyError"]
             ELSE LET id == GetItem(h[tags.a], StrOfInt(GAME_TAG_ENTITY_ID))
                  IN  IF IsKeyError(id) THEN [ret |-> acc, exc |-> "KeyError"]
                      ELSE TagsById(h, Tail(es), SetItem(acc, id, tags))

\* (the loop of lines 146-150 without the comparison of the values of line 147)
RECURSIVE DiffTagsByKey(_, _, _, _, _)
DiffTagsByKey(h, old, new, keys, acc) ==
    IF Evaluated(acc) /\ keys = <<>> THEN acc
    ELSE LET key == Head(keys)
         IN  IF HasKey(old, key)
             THEN DiffTagsByKey(h, old, new, Tail(keys), acc)
             ELSE DiffTagsByKey(h, old, new, Tail(keys),
                                SetItem(acc, key, GetItem(new, key)))

\* The loop of lines 146-150 over the keys of the next state's tags.
RECURSIVE DiffTags(_, _, _, _, _)
DiffTags(h, old, new, keys, acc) ==
    IF Evaluated(acc) /\ keys = <<>> THEN acc
    ELSE LET key == Head(keys)
         IN  IF HasKey(old, key)
                  /\ Val(h, GetItem(old, key)) = Val(h, GetItem(new, key))
             THEN DiffTags(h, old, new, Tail(keys), acc)
             ELSE DiffTags(h, old, new, Tail(keys),
                           SetItem(acc, key, GetItem(new, key)))

\* The loop of lines 143-155 over next_state_dict.
RECURSIVE DiffLoop(_, _, _, _)
DiffLoop(h, state_dict, ids, acc) ==
    IF Evaluated(h) /\ Evaluated(acc) /\ ids = <<>> THEN [heap |-> h, ret |-> acc]
    ELSE LET entity_id == Head(ids)[1]
             new == Head(ids)[2]
             Then(e) ==
                 IF Len(e.heap[e.ret.a].items) > 0
                 THEN DiffLoop([e.heap EXCEPT ![e.ret.a] =
                                    SetItem(@, StrOfInt(GAME_TAG_ENTITY_ID), entity_id)],
                               state_dict, Tail(ids), Append(acc, e.ret))
                 ELSE DiffLoop(e.heap, state_dict, Tail(ids), acc)
         IN  Then(IF HasKey(state_dict, entity_id)
                  THEN Alloc(h, DiffTags(h, h[GetItem(state_dict, entity_id).a],
                                         h[new.a], KeyList(h[new.a]), Dict(<<>>)))
                  ELSE [heap |-> h, ret |-> new])

\* calculate_difference(state, next_state): both references to lists of entities.
calculate_difference(h, state, next_state) ==
    LET Listed(l) == [heap |-> l.heap, ret |-> l.ret, exc |-> ""]
        Looped(d) == Listed(Alloc(d.heap, List(d.ret)))
        Second(state_dict, next_state_dict) ==
            IF next_state_dict.exc # ""
            THEN [heap |-> h, ret |-> None, exc |-> next_state_dict.exc]
            ELSE Looped(DiffLoop(h, state_dict.ret, next_state_dict.ret.items, <<>>))
        First(state_dict) ==
            IF state_dict.exc # "" THEN [heap |-> h, ret |-> None, exc |-> state_dict.exc]
            ELSE Second(state_dict, TagsById(h, h[next_state.a].items, Dict(<<>>)))
    IN  First(TagsById(h, h[state.a].items, Dict(<<>>)))

---------------------------------------------------------------------------
(* json.dumps(item, separators=(',', ':')) *)

\* The escape of one character inside a JSON string (ASCII input).
JsonEscape(c) ==
    CASE c = "\"" -> <<"\\", "\"">>
      [] c = "\\" -> <<"\\", "\\">>
      [] c = "\n" -> <<"\\", "n">>
      [] c = "\r" -> <<"\\", "r">>
      [] c = "\t" -> <<"\\", "t">>
      [] OTHER -> <<c>>

JsonString(s) ==
    <<"\"">> \o Concat([i \in 1..Len(s) |-> JsonEscape(s[i])]) \o <<"\"">>

RECURSIVE JsonDumps(_, _)
JsonDumps(h, v) ==
    CASE v.t = "str" -> JsonString(v.s)
      [] v.t = "int" -> StrOfInt(v.n)
      [] v.t = "float" -> v.f
      [] v.t = "bool" -> IF v.b THEN <<"t", "r", "u", "e">>
                                ELSE <<"f", "a", "l", "s", "e">>
      [] v.t = "NoneType" -> <<"n", "u", "l", "l">>
      [] v.t = "ref" -> JsonDumps(h, h[v.a])
      [] v.t = "list" ->
            <<"[">> \o Join([i \in 1..Len(v.items) |-> JsonDumps(h, v.items[i])], <<",">>)
                    \o <<"]">>
      [] v.t = "dict" ->
            <<"{">> \o Join([i \in 1..Len(v.items) |->
                                JsonString(v.items[i][1]) \o <<":">>
                                    \o JsonDumps(h, v.items[i][2])], <<",">>)
                    \o <<"}">>

---------------------------------------------------------------------------
(* preprocess_input *)

\* Of the starts occ of the occurrences of a pattern of length n, those that
\* s.replace replaces: the leftmost one at or after index from, then the leftmost
\* one after its end.
RECURSIVE Leftmost(_, _, _)
Leftmost(occ, n, from) ==
    LET rest == {i \in occ : i >= from}
        First(i) == {i} \cup Leftmost(occ, n, i + n)
    IN  IF rest = {} THEN {}
        ELSE First(CHOOSE i \in rest : \A j \in rest : i <= j)

\* The starts of the occurrences of pat that s.replace(pat, ...) replaces
Matches(s, pat) ==
    Leftmost({i \in 1..(Len(s) - Len(pat) + 1) :
                 s[i] = pat[1] /\ SubSeq(s, i, i + Len(pat) - 1) = pat},
             Len(pat), 1)

\* s.replace(pat, rep), for a pattern that is not empty
Replace(s, pat, rep) ==
    LET Pieces(m) ==
            [i \in 1..Len(s) |->
                IF i \in m THEN rep
                ELSE IF \E k \in m : k < i /\ i < k + Len(pat) THEN <<>>
                ELSE <<s[i]>>]
    IN  Concat(Pieces(Matches(s, pat)))

RECURSIVE ReplaceAll(_, _, _)
ReplaceAll(s, pats, suffix) ==
    IF Evaluated(s) /\ pats = <<>> THEN s
    ELSE ReplaceAll(Replace(s, Head(pats) \o suffix, <<>>), Tail(pats), suffix)

removals == << <<"\"">>, <<"{">>, <<"}">>, <<"[">>, <<"]">>, <<"'">> >>

keywords ==
   << <<"e", "n", "t", "i", "t", "y">>,
      <<"t", "y", "p", "e">>,
      <<"s", "u", "b", "_", "o", "p", "t", "i", "o", "n", "s">>,
      <<"s", "u", "b", "_", "o", "p", "t", "i", "o", "n">>,
      <<"p", "o", "s", "i", "t", "i", "o", "n">>,
      <<"t", "a", "r", "g", "e", "t", "s">>,
      <<"t", "a", "r", "g", "e", "t">>,
      <<"c", "a", "r", "d", "_", "i", "d">>,
      <<"c", "a", "r", "d", "_", "n", "a", "m", "e">>,
      <<"c", "a", "r", "d", "_", "d", "e", "s", "c", "r", "i", "p", "t", "i", "o", "n">>,
      <<"n", "a", "m", "e", "d", "_", "t", "a", "g", "s">>,
      <<"t", "a", "g", "s">> >>

\* The matches <<i, j>> of the pattern <.*?> that re.sub replaces: a match starts
\* at the leftmost "<" at or after index from that a ">" follows with no newline
\* in between ("." matches any character but a newline), and ends at the first
\* such ">"; the search goes on after it.
RECURSIVE TagMatches(_, _)
TagMatches(s, from) ==
    LET Close(i) == {j \in (i + 1)..Len(s) :
                        s[j] = ">" /\ \A k \in (i + 1)..(j - 1) : s[k] # "\n"}
        open == {i \in from..Len(s) : s[i] = "<" /\ Close(i) # {}}
        End(i, j) == {<<i, j>>} \cup TagMatches(s, j + 1)
        Start(i) == End(i, CHOOSE j \in Close(i) : \A k \in Close(i) : j <= k)
    IN  IF open = {} THEN {}
        ELSE Start(CHOOSE i \in open : \A k \in open : i <= k)

RegexSubNothing(s) == s

\* re.sub(r"<.*?>", "", s)
RegexSub(s) ==
    LET Keep(m) == SelectSeq([i \in 1..Len(s) |-> <<i, s[i]>>],
                             LAMBDA p : \A ij \in m : p[1] < ij[1] \/ p[1] > ij[2])
        Chars(kept) == [i \in 1..Len(kept) |-> kept[i][2]]
    IN  Chars(Keep(TagMatches(s, 1)))

UpperCase == <<"A", "B", "C", "D", "E", "F", "G", "H", "I", "J", "K", "L", "M",
               "N", "O", "P", "Q", "R", "S", "T", "U", "V", "W", "X", "Y", "Z">>
LowerCase == <<"a", "b", "c", "d", "e", "f", "g", "h", "i", "j", "k", "l", "m",
               "n", "o", "p", "q", "r", "s", "t", "u", "v", "w", "x", "y", "z">>
IsUpper(c) == \E i \in 1..26 : UpperCase[i] = c
LowerChar(c) ==
    IF IsUpper(c) THEN LowerCase[CHOOSE i \in 1..26 : UpperCase[i] = c] ELSE c
\* s.lower()
Lower(s) == [i \in 1..Len(s) |-> LowerChar(s[i])]

preprocess_input(h, item) ==
    LET ret0 == JsonDumps(h, item)
        ret1 == ReplaceAll(ret0, removals, <<>>)
        ret2 == ReplaceAll(ret1, keywords, <<":">>)
        ret3 == Replace(Replace(Replace(ret2, <<":">>, <<" ">>), <<",">>, <<" ">>),
                        <<"\\", "n">>, <<" ">>)
        ret4 == RegexSub(ret3)
    IN  Lower(ret4)

---------------------------------------------------------------------------
(* collate_sequence_data *)

\* decay_factor is a power of 0.9 throughout (0.9 at line 51, squared at line 55),
\* and the model keeps its exponent: 0.9 is exponent 1, and the product of two
\* powers of 0.9 has the sum of their exponents.  A reward result * 0.9^e is kept
\* as the pair of result and e.
DecayInit == 1
DecayTimes(d1, d2) == d1 + d2
Reward(result, d) == [result |-> result, exp |-> d]

\* seq[:-1] and seq[1:]
ButLast(s) == SubSeq(s, 1, Len(s) - 1)
RestFromFirst(s) == s
Rest(s) == SubSeq(s, 2, Len(s))

\* The tuple of line 58, with c the deep copy of the next state.
Collated(c, state, action, reward, option, next_option) ==
    [state |-> state, action |-> action, next_state |-> c.ret, reward |-> reward,
     option |-> option, next_option |-> next_option]

\* The loop of lines 52-59 over the zip of the five slices.
RECURSIVE CollateLoop(_, _, _, _, _, _, _, _, _)
CollateLoop(h, result, st, ac, nst, op, nop, decay_factor, acc) ==
    IF /\ Evaluated(h) /\ Evaluated(acc) /\ Evaluated(decay_factor)
       /\ (st = <<>> \/ ac = <<>> \/ nst = <<>> \/ op = <<>> \/ nop = <<>>)
    THEN [heap |-> h, ret |-> acc]
    ELSE LET Step(reward, decay) ==
                 LET Copied(c) ==
                         CollateLoop(c.heap, result, Tail(st), Tail(ac), Tail(nst),
                                     Tail(op), Tail(nop), decay,
                                     Append(acc, Collated(c, Head(st), Head(ac), reward,
                                                          Head(op), Head(nop))))
                 IN  IF PyInt(GetItem(h[Head(ac).a], S_type)) = OPTION_TYPE_END_TURN
                     THEN CollateLoop(h, result, Tail(st), Tail(ac), Tail(nst),
                                      Tail(op), Tail(nop), decay, acc)
                     ELSE Copied(deepcopy(h, Head(nst)))
         IN  Step(Reward(result, decay_factor), DecayTimes(decay_factor, decay_factor))

\* collate_sequence_data(data): d is the reference to the loaded JSON object.
collate_sequence_data(h, d) ==
    LET Zip(result, state, action, option) ==
            CollateLoop(h, result, ButLast(state), ButLast(action), Rest(state),
                        ButLast(option), Rest(option), DecayInit, <<>>)
        Of(sequence) ==
            Zip(GetItem(h[GetItem(h[d.a], S_metadata).a], S_result),
                h[GetItem(sequence, S_state).a].items,
                h[GetItem(sequence, S_action).a].items,
                h[GetItem(sequence, S_option).a].items)
    IN  Of(h[GetItem(h[d.a], S_sequence).a])

---------------------------------------------------------------------------
(* check_data and tokenize_data.  The tokenizer is the transformers library's: *)
(* the model keeps the texts handed to it.                                    *)

\* Lines 170-175 (and 125-130): the next-state structure that is flattened.
NextStateOf(h, t, diff) ==
    LET Second(full_next_state, full_state) ==
            IF full_state.exc # "" THEN full_state
            ELSE calculate_difference(full_state.heap, full_state.ret,
                                      full_next_state.ret)
        First(full_next_state) ==
            IF full_next_state.exc # "" THEN full_next_state
            ELSE Second(full_next_state,
                        preprocess_state(full_next_state.heap, t.state, t.option, FALSE))
    IN  IF diff
        THEN First(preprocess_state(h, t.next_state, t.next_option, FALSE))
        ELSE preprocess_state(h, t.next_state, t.next_option, TRUE)

\* The three texts of one transition: lines 165-177 (and 120-132).  text_action is
\* preprocess_input(action), text_state is preprocess_input(stripped_state).
Texts(h, t, diff) ==
    LET Third(text_action, text_state, stripped_next_state) ==
            IF stripped_next_state.exc # "" THEN stripped_next_state
            ELSE [heap |-> stripped_next_state.heap,
                  ret |-> [state |-> text_action \o text_state,
                           action |-> text_action,
                           next_state |-> preprocess_input(stripped_next_state.heap,
                                                           stripped_next_state.ret)],
                  exc |-> ""]
        First(stripped_state) ==
            IF stripped_state.exc # "" THEN stripped_state
            ELSE Third(preprocess_input(stripped_state.heap, t.action),
                       preprocess_input(stripped_state.heap, stripped_state.ret),
                       NextStateOf(stripped_state.heap, t, diff))
    IN  First(preprocess_state(h, t.state, t.option, TRUE))

\* The loop of tokenize_data: combined_data holds the three texts and the reward.
RECURSIVE TokenizeLoop(_, _, _, _)
TokenizeLoop(h, ts, diff, acc) ==
    IF Evaluated(h) /\ Evaluated(acc) /\ ts = <<>>
    THEN [heap |-> h, ret |-> acc, exc |-> ""]
    ELSE LET Then(r) ==
                 IF r.exc # "" THEN [heap |-> r.heap, ret |-> None, exc |-> r.exc]
                 ELSE TokenizeLoop(r.heap, Tail(ts), diff,
                                   Append(acc, [state |-> r.ret.state,
                                                action |-> r.ret.action,
                                                next_state |-> r.ret.next_state,
                                                reward |-> Head(ts).reward]))
         IN  Then(Texts(h, Head(ts), diff))

tokenize_data(h, seq, diff) == TokenizeLoop(h, seq, diff, <<>>)

\* The loop of check_data: an item is made of the three texts (of their token
\* counts, in the source).
RECURSIVE CheckLoop(_, _, _, _)
CheckLoop(h, ts, diff, acc) ==
    IF Evaluated(h) /\ Evaluated(acc) /\ ts = <<>>
    THEN [heap |-> h, ret |-> acc, exc |-> ""]
    ELSE LET Then(r) ==
                 IF r.exc # "" THEN [heap |-> r.heap, ret |-> None, exc |-> r.exc]
                 ELSE CheckLoop(r.heap, Tail(ts), diff,
                                Append(acc, <<r.ret.state, r.ret.action,
                                              r.ret.next_state>>))
         IN  Then(Texts(h, Head(ts), diff))

check_data(h, seq, diff) == CheckLoop(h, seq, diff, <<>>)

---------------------------------------------------------------------------
(* The JSON of a trajectory file *)

Tag(k, v) == <<StrOfInt(k), Str(v)>>

EntityVal(card_id, card_name, card_description, tags) ==
    Dict(<< <<S_card_id, card_id>>, <<S_card_name, card_name>>,
            <<S_card_description, card_description>>, <<S_tags, Dict(tags)>> >>)

ActionVal(type, entity) ==
    Dict(<< <<S_type, Str(StrOfInt(type))>>, <<S_entity, Str(StrOfInt(entity))>> >>)

OptionVal(entity) ==
    Dict(<< <<S_entity, Str(StrOfInt(entity))>>,
            <<S_type, Str(StrOfInt(OPTION_TYPE_POWER))>> >>)

\* A frame is one step of the recording: the state seen, the action taken and
\* the options offered.
FileVal(result, frames) ==
    Dict(<< <<S_metadata, Dict(<< <<S_result, Num(result)>> >>)>>,
            <<S_sequence,
              Dict(<< <<S_state, List([i \in 1..Len(frames) |-> frames[i].state])>>,
                      <<S_action, List([i \in 1..Len(frames) |-> frames[i].action])>>,
                      <<S_option, List([i \in 1..Len(frames) |-> frames[i].option])>> >>)>> >>)

SeqsUpTo(S, n) == UNION {[1..k -> S] : k \in 0..n}

\* The field of the loaded JSON object: data["sequence"][name][i]
Field(h, d, name) == h[GetItem(h[GetItem(h[d.a], S_sequence).a], name).a].items

---------------------------------------------------------------------------
(* The loader at work on one file: get_data_loader and check_data_loader call  *)
(* load_json_data, collate_sequence_data and tokenize_data or check_data; the *)
(* other methods may be called on the loaded data as well.                    *)

MaxFrames == 3
MaxCalls == 2

Minion == EntityVal(Str(<<"E", "X">>), Str(<<"I", "m", "p">>), Str(<<"<", "b", ">", "T">>),
                    << Tag(GAME_TAG_ENTITY_ID, <<"1">>), Tag(GAME_TAG_ZONE, <<"1">>),
                       Tag(GAME_TAG_HEALTH, <<"5">>) >>)
MinionHurt == EntityVal(Str(<<"E", "X">>), Str(<<"I", "m", "p">>), Str(<<"<", "b", ">", "T">>),
                    << Tag(GAME_TAG_EXHAUSTED, <<"1">>),
                       Tag(GAME_TAG_ENTITY_ID, <<"1">>), Tag(GAME_TAG_ZONE, <<"1">>),
                       Tag(GAME_TAG_HEALTH, <<"4">>) >>)
InDeck == EntityVal(Str(<<"C", "S">>), Str(<<"Z", "a", "p">>), Str(<<"D">>),
                    << Tag(GAME_TAG_ENTITY_ID, <<"3">>), Tag(GAME_TAG_ZONE, <<"2">>) >>)

Frames ==
    { [state |-> List(<<Minion>>),
       action |-> ActionVal(OPTION_TYPE_POWER, 1),
       option |-> List(<<OptionVal(1)>>)],
      [state |-> List(<<MinionHurt>>),
       action |-> ActionVal(OPTION_TYPE_END_TURN, 0),
       option |-> List(<<OptionVal(1), OptionVal(2)>>)],
      [state |-> List(<<InDeck>>),
       action |-> ActionVal(OPTION_TYPE_POWER, 3),
       option |-> List(<<>>)] }

Files == {FileVal(1, fs) : fs \in SeqsUpTo(Frames, MaxFrames)}

Init == /\ heap = <<>>
        /\ data = None
        /\ file \in Files
        /\ difference \in BOOLEAN
        /\ sequence_data = None
        /\ call = [fn |-> "__init__"]
        /\ ncalls = 0

load_json_data ==
    /\ data = None
    /\ \E b \in {Build(heap, file)} :
          /\ heap' = b.heap
          /\ data' = b.ret
    /\ call' = [fn |-> "load_json_data"]
    /\ UNCHANGED <<file, difference, sequence_data, ncalls>>

CallCollate ==
    /\ data # None
    /\ ncalls < MaxCalls
    /\ \E r \in {collate_sequence_data(heap, data)} :
          /\ heap' = r.heap
          /\ sequence_data' = List(r.ret)
          /\ call' = [fn |-> "collate_sequence_data", ret |-> r.ret, exc |-> ""]
    /\ ncalls' = ncalls + 1
    /\ UNCHANGED <<data, file, difference>>

CallTokenize ==
    /\ sequence_data # None
    /\ ncalls < MaxCalls
    /\ \E r \in {tokenize_data(heap, sequence_data.items, difference)} :
          /\ heap' = r.heap
          /\ call' = [fn |-> "tokenize_data", ret |-> r.ret, exc |-> r.exc]
    /\ ncalls' = ncalls + 1
    /\ UNCHANGED <<data, file, difference, sequence_data>>

CallCheck ==
    /\ sequence_data # None
    /\ ncalls < MaxCalls
    /\ \E r \in {check_data(heap, sequence_data.items, difference)} :
          /\ heap' = r.heap
          /\ call' = [fn |-> "check_data", ret |-> r.ret, exc |-> r.exc]
    /\ ncalls' = ncalls + 1
    /\ UNCHANGED <<data, file, difference, sequence_data>>

CallPreprocessState ==
    /\ data # None
    /\ ncalls < MaxCalls
    /\ \E i \in 1..Len(Field(heap, data, S_state)), strip \in BOOLEAN :
          \E state \in {Field(heap, data, S_state)[i]},
             option \in {Field(heap, data, S_option)[i]} :
             \E r \in {preprocess_state(heap, state, option, strip)} :
                /\ heap' = r.heap
                /\ call' = [fn |-> "preprocess_state", index |-> i, state |-> state,
                            option |-> option, strip |-> strip,
                            ret |-> r.ret, exc |-> r.exc]
    /\ ncalls' = ncalls + 1
    /\ UNCHANGED <<data, file, difference, sequence_data>>

CallCalculateDifference ==
    /\ data # None
    /\ ncalls < MaxCalls
    /\ \E i \in 1..(Len(Field(heap, data, S_state)) - 1) :
          \E state \in {Field(heap, data, S_state)[i]},
             next_state \in {Field(heap, data, S_state)[i + 1]} :
             \E r \in {calculate_difference(heap, state, next_state)} :
                /\ heap' = r.heap
                /\ call' = [fn |-> "calculate_difference", index |-> i,
                            state |-> state, next_state |-> next_state,
                            ret |-> r.ret, exc |-> r.exc]
    /\ ncalls' = ncalls + 1
    /\ UNCHANGED <<data, file, difference, sequence_data>>

Next == \/ load_json_data
        \/ CallCollate
        \/ CallTokenize
        \/ CallCheck
        \/ CallPreprocessState
        \/ CallCalculateDifference

Spec == Init /\ [][Next]_vars

---------------------------------------------------------------------------
(* collate_sequence_data on longer recordings *)

MaxPairs == 4

CollateFiles ==
    {FileVal(r, fs) : r \in {1, 0 - 1}, fs \in SeqsUpTo(Frames, MaxPairs + 1)}

InitCollate ==
    /\ heap = <<>>
    /\ data = None
    /\ file \in CollateFiles
    /\ difference = FALSE
    /\ sequence_data = None
    /\ call = [fn |-> "__init__"]
    /\ ncalls = 0

SpecCollate == InitCollate /\ [][load_json_data \/ CallCollate]_vars

---------------------------------------------------------------------------
(* preprocess_state on one state *)

MaxTags == 3
MaxEntities == 2

TagPairs ==
    {Tag(GAME_TAG_ENTITY_ID, <<"1">>), Tag(GAME_TAG_ENTITY_ID, <<"2">>),
     Tag(GAME_TAG_ZONE, <<"1">>), Tag(GAME_TAG_ZONE, <<"2">>),
     Tag(GAME_TAG_HEALTH, <<"5">>), Tag(GAME_TAG_EXHAUSTED, <<"0">>),
     Tag(TAG_READY, <<"0">>)}

\* The tags of an entity: an ordered dict, no key twice.
TagDicts(n) ==
    {t \in SeqsUpTo(TagPairs, n) :
        \A i, j \in 1..Len(t) : i # j => t[i][1] # t[j][1]}

CardIds == {Str(<<>>), Str(<<"X">>), None}
CardNames == {Str(<<>>), Str(<<"N">>)}
CardDescriptions == {Str(<<>>), Str(<<"D">>)}

Entities ==
    {EntityVal(Str(<<"X">>), Str(<<"N">>), Str(<<"D">>), t) : t \in TagDicts(MaxTags)}
    \cup {EntityVal(c, n, d, t) :
            c \in CardIds, n \in CardNames, d \in CardDescriptions, t \in TagDicts(1)}

CoreEntities ==
    {EntityVal(Str(<<"X">>), Str(<<"N">>), Str(<<"D">>),
               <<Tag(GAME_TAG_ENTITY_ID, <<"1">>), Tag(GAME_TAG_ZONE, <<"1">>)>>),
     EntityVal(Str(<<"X">>), Str(<<"N">>), Str(<<"E">>),
               <<Tag(GAME_TAG_EXHAUSTED, <<"0">>), Tag(GAME_TAG_ENTITY_ID, <<"2">>)>>),
     EntityVal(Str(<<"X">>), Str(<<"N">>), Str(<<"F">>),
               <<Tag(GAME_TAG_ENTITY_ID, <<"3">>), Tag(GAME_TAG_ZONE, <<"2">>)>>),
     EntityVal(None, Str(<<"N">>), Str(<<"G">>), <<Tag(GAME_TAG_ENTITY_ID, <<"4">>)>>),
     EntityVal(None, Str(<<>>), Str(<<"H">>), <<Tag(GAME_TAG_ENTITY_ID, <<"5">>)>>)}

States ==
    {List(<<e>>) : e \in Entities}
    \cup {List(es) : es \in SeqsUpTo(CoreEntities, MaxEntities)}

Options ==
    {List(<<>>), List(<<OptionVal(1)>>), List(<<OptionVal(2), OptionVal(1)>>)}

StateFiles ==
    {FileVal(1, <<[state |-> st, action |-> ActionVal(OPTION_TYPE_POWER, 1),
                   option |-> op]>>) : st \in States, op \in Options}

InitState ==
    /\ heap = <<>>
    /\ data = None
    /\ file \in StateFiles
    /\ difference = FALSE
    /\ sequence_data = None
    /\ call = [fn |-> "__init__"]
    /\ ncalls = 0

SpecState == InitState /\ [][load_json_data \/ CallPreprocessState]_vars

---------------------------------------------------------------------------
(* calculate_difference on two states whose entities have unique ENTITY_IDs *)

MaxDiffEntities == 2

DiffEntities ==
    {EntityVal(Str(<<"X">>), Str(<<"N">>), Str(<<"D">>), <<id>> \o hp \o zn) :
        id \in {Tag(GAME_TAG_ENTITY_ID, <<"1">>), Tag(GAME_TAG_ENTITY_ID, <<"2">>)},
        hp \in {<<>>, <<Tag(GAME_TAG_HEALTH, <<"5">>)>>, <<Tag(GAME_TAG_HEALTH, <<"6">>)>>},
        zn \in {<<>>, <<Tag(GAME_TAG_ZONE, <<"1">>)>>}}

EntityIdOf(e) == GetItem(GetItem(e, S_tags), StrOfInt(GAME_TAG_ENTITY_ID))

DiffStates ==
    {List(es) : es \in {es \in SeqsUpTo(DiffEntities, MaxDiffEntities) :
        \A i, j \in 1..Len(es) : i # j => EntityIdOf(es[i]) # EntityIdOf(es[j])}}

DiffFiles ==
    {FileVal(1, <<[state |-> a, action |-> ActionVal(OPTION_TYPE_POWER, 1),
                   option |-> List(<<>>)],
                  [state |-> b, action |-> ActionVal(OPTION_TYPE_POWER, 1),
                   option |-> List(<<>>)]>>) : a \in DiffStates, b \in DiffStates}

InitDiff ==
    /\ heap = <<>>
    /\ data = None
    /\ file \in DiffFiles
    /\ difference = TRUE
    /\ sequence_data = None
    /\ call = [fn |-> "__init__"]
    /\ ncalls = 0

SpecDiff == InitDiff /\ [][load_json_data \/ CallCalculateDifference]_vars

---------------------------------------------------------------------------
(* preprocess_input on JSON-serializable items *)

MaxChars == 3

Alphabet == {"A", "b", "n", "<", ">", "\"", "'", ":", ",", "{", "]", "\\", "\n"}

Strings(n) == SeqsUpTo(Alphabet, n)

Atoms == {None, Num(0 - 3), Float(<<"N", "a", "N">>), [t |-> "bool", b |-> TRUE],
          Str(<<">">>)}

Items ==
    {Str(s) : s \in Strings(MaxChars)}
    \cup {Dict(<< <<k, Str(s)>> >>) :
            k \in {S_entity, S_tags, <<"K", "<">>}, s \in Strings(MaxChars - 1)}
    \cup {List(<<Str(s), a>>) : s \in Strings(1), a \in Atoms}

InitInput ==
    /\ heap = <<>>
    /\ data = None
    /\ file \in Items
    /\ difference = FALSE
    /\ sequence_data = None
    /\ call = [fn |-> "__init__"]
    /\ ncalls = 0

CallPreprocessInput ==
    /\ data # None
    /\ ncalls < MaxCalls
    /\ call' = [fn |-> "preprocess_input", item |-> data,
                ret |-> preprocess_input(heap, data)]
    /\ ncalls' = ncalls + 1
    /\ UNCHANGED <<heap, data, file, difference, sequence_data>>

SpecInput == InitInput /\ [][load_json_data \/ CallPreprocessInput]_vars


---------------------------------------------------------------------------
(* What the file holds, read from the JSON text and not from the heap *)

FileResult == GetItem(GetItem(file, S_metadata), S_result)
FileField(name) == GetItem(GetItem(file, S_sequence), name).items

\* The 0-based numbers of the consecutive pairs whose action is not END_TURN
EmittedPairs ==
    SelectSeq([i \in 1..(Len(FileField(S_state)) - 1) |-> i - 1],
              LAMBDA i : PyInt(GetItem(FileField(S_action)[i + 1], S_type))
                            # OPTION_TYPE_END_TURN)

---------------------------------------------------------------------------
(* collate_sequence_data *)

\* C1: the reward of the i-th consecutive pair (0-based, END_TURN pairs counted)
\* is result * 0.9^(i+1): a geometric decay.
C1_GeometricDecay ==
    call.fn = "collate_sequence_data" =>
        \A j \in 1..Len(call.ret) :
            \A i \in 0..(Len(FileField(S_state)) - 2) :
                call.ret[j].state = Field(heap, data, S_state)[i + 1]
                    => call.ret[j].reward = Reward(FileResult, i + 1)

\* C3: collate_sequence_data returns, in order, one tuple (state[i], action[i],
\* state[i+1], reward, option[i], option[i+1]) for every i in 0..n-2 whose action
\* is not END_TURN, and nothing else; fewer than two states give an empty list.
C3_CollatedPairs ==
    call.fn = "collate_sequence_data" =>
        /\ call.exc = ""
        /\ Len(call.ret) = Len(EmittedPairs)
        /\ \A j \in 1..Len(call.ret) :
              /\ j <= Len(EmittedPairs)
              /\ Val(heap, call.ret[j].state) = FileField(S_state)[EmittedPairs[j] + 1]
              /\ Val(heap, call.ret[j].action) = FileField(S_action)[EmittedPairs[j] + 1]
              /\ Val(heap, call.ret[j].next_state)
                    = FileField(S_state)[EmittedPairs[j] + 2]
              /\ Val(heap, call.ret[j].option) = FileField(S_option)[EmittedPairs[j] + 1]
              /\ Val(heap, call.ret[j].next_option)
                    = FileField(S_option)[EmittedPairs[j] + 2]

\* A recording of four frames or more whose END_TURN pair in the middle was
\* skipped and whose last action was left out.
C3_Witness ==
    /\ call.fn = "collate_sequence_data"
    /\ Len(FileField(S_state)) >= 4
    /\ Len(call.ret) >= 2
    /\ Len(call.ret) < Len(FileField(S_state)) - 1
    /\ PyInt(GetItem(FileField(S_action)[Len(FileField(S_action))], S_type))
          # OPTION_TYPE_END_TURN

---------------------------------------------------------------------------
(* preprocess_state *)

\* The state and the options the last preprocess_state call was given, and the
\* entities it returned.
GivenState == FileField(S_state)[call.index].items
GivenOption == FileField(S_option)[call.index].items
Returned == Val(heap, call.ret).items

\* An entity with a non-empty card_name, card_description and card_id, and with no
\* ZONE tag or one whose value is SECRET, HAND or PLAY
NonEmptyStr(v) == IsStr(v) /\ v.s # <<>>
ValidEntity(e) ==
    /\ NonEmptyStr(GetItem(e, S_card_name))
    /\ NonEmptyStr(GetItem(e, S_card_description))
    /\ NonEmptyStr(GetItem(e, S_card_id))
    /\ \/ ~HasKey(GetItem(e, S_tags), StrOfInt(GAME_TAG_ZONE))
       \/ PyInt(GetItem(GetItem(e, S_tags), StrOfInt(GAME_TAG_ZONE)))
             \in {TAG_ZONE_SECRET, TAG_ZONE_HAND, TAG_ZONE_PLAY}

ValidEntities == SelectSeq(GivenState, ValidEntity)

\* The twelve tags of the scope list
InScope(key) ==
    IntOfStr(key) \in {GAME_TAG_ENTITY_ID, GAME_TAG_HEALTH, GAME_TAG_ATK, GAME_TAG_COST,
                       GAME_TAG_ARMOR, GAME_TAG_ZONE, GAME_TAG_CONTROLLER,
                       GAME_TAG_CLASS, GAME_TAG_CARDRACE, GAME_TAG_CARDTYPE,
                       GAME_TAG_SECRET, GAME_TAG_ZONE_POSITION}

\* The keys of a dict, as a set
KeySet(d) == {d.items[i][1] : i \in 1..Len(d.items)}

\* The returned entity r is the given entity e, preprocessed: it has e's
\* description and e's values for the tags of the scope list.
Preprocessed(r, e) ==
    /\ GetItem(r, S_card_description) = GetItem(e, S_card_description)
    /\ HasKey(r, S_named_tags)
    /\ \A k \in KeySet(GetItem(e, S_tags)) :
          InScope(k) =>
              GetItem(GetItem(r, S_named_tags), tag_map(IntOfStr(k)))
                  = GetItem(GetItem(e, S_tags), k)

\* C4: preprocess_state returns, in input order, exactly the valid entities of
\* the state, whatever the strip flag and the options; every other is dropped.
C4_KeepsValidEntities ==
    call.fn = "preprocess_state" =>
        /\ call.exc = ""
        /\ Len(Returned) = Len(ValidEntities)
        /\ \A j \in 1..Len(ValidEntities) : Preprocessed(Returned[j], ValidEntities[j])

\* C5: with strip=True a returned entity has no card_id, card_name or tags key and
\* has named_tags, whose keys are the names of the given entity's tags of the scope
\* list, and at most the ready marker besides; the values are the given ones.
C5_StrippedSchema ==
    (call.fn = "preprocess_state" /\ call.strip /\ call.exc = "") =>
        /\ Len(Returned) = Len(ValidEntities)
        /\ \A j \in 1..Len(Returned) :
              /\ ~HasKey(Returned[j], S_card_id)
              /\ ~HasKey(Returned[j], S_card_name)
              /\ ~HasKey(Returned[j], S_tags)
              /\ Preprocessed(Returned[j], ValidEntities[j])
              /\ {tag_map(IntOfStr(k)) :
                    k \in {k \in KeySet(GetItem(ValidEntities[j], S_tags)) : InScope(k)}}
                    \subseteq KeySet(GetItem(Returned[j], S_named_tags))
              /\ KeySet(GetItem(Returned[j], S_named_tags))
                    \subseteq {tag_map(IntOfStr(k)) :
                        k \in {k \in KeySet(GetItem(ValidEntities[j], S_tags)) : InScope(k)}}
                    \cup {tag_map(TAG_READY)}

\* A strip=True call that dropped a tag outside the scope list, kept one of the
\* list and added the ready marker.
C5_Witness ==
    /\ call.fn = "preprocess_state" /\ call.strip /\ call.exc = ""
    /\ \E j \in 1..Len(Returned) :
          /\ \E k \in KeySet(GetItem(ValidEntities[j], S_tags)) : ~InScope(k)
          /\ KeySet(GetItem(Returned[j], S_named_tags))
                = {tag_map(GAME_TAG_ENTITY_ID), tag_map(TAG_READY)}

\* C8: with either strip value, every kept entity whose ENTITY_ID is the entity of
\* some option carries the ready marker with value "1" in its named_tags.
C8_OperableMarked ==
    (call.fn = "preprocess_state" /\ call.exc = "") =>
        \A j \in 1..Len(ValidEntities) :
            ( /\ HasKey(GetItem(ValidEntities[j], S_tags), StrOfInt(GAME_TAG_ENTITY_ID))
              /\ \E i \in 1..Len(GivenOption) :
                    PyInt(GetItem(GivenOption[i], S_entity))
                        = PyInt(GetItem(GetItem(ValidEntities[j], S_tags),
                                        StrOfInt(GAME_TAG_ENTITY_ID))) )
            => /\ j <= Len(Returned)
               /\ HasKey(Returned[j], S_named_tags)
               /\ GetItem(GetItem(Returned[j], S_named_tags), tag_map(TAG_READY))
                     = Str(<<"1">>)

\* C9: an entity whose card_id is None is dropped and the call returns, whatever
\* its card_name and card_description.
C9_NoneCardIdDropped ==
    ( /\ call.fn = "preprocess_state"
      /\ \E i \in 1..Len(GivenState) : IsNone(GetItem(GivenState[i], S_card_id)) )
    => /\ call.exc = ""
       /\ Len(Returned) = Len(ValidEntities)

---------------------------------------------------------------------------
(* calculate_difference *)

\* The two states the last calculate_difference call was given
GivenOld == FileField(S_state)[call.index].items
GivenNew == FileField(S_state)[call.index + 1].items

TagsOf(e) == GetItem(e, S_tags)
IdKey == StrOfInt(GAME_TAG_ENTITY_ID)

\* The tags of the entity e of the next state that are missing from, or different
\* in, the entity of the same ENTITY_ID of the state; all of them when there is none
ChangedTags(e) ==
    IF \E i \in 1..Len(GivenOld) : EntityIdOf(GivenOld[i]) = EntityIdOf(e)
    THEN LET old == TagsOf(GivenOld[CHOOSE i \in 1..Len(GivenOld) :
                                        EntityIdOf(GivenOld[i]) = EntityIdOf(e)])
         IN  {k \in KeySet(TagsOf(e)) :
                 ~HasKey(old, k) \/ GetItem(old, k) # GetItem(TagsOf(e), k)}
    ELSE KeySet(TagsOf(e))

ChangedEntities == SelectSeq(GivenNew, LAMBDA e : ChangedTags(e) # {})

\* A dict as the set of its <<key, value>> pairs
PairSet(d) == {d.items[i] : i \in 1..Len(d.items)}

\* C6: calculate_difference returns, in next_state order, one entry for every
\* entity of next_state that is new or has a tag missing from or different in
\* state; the entry holds exactly those tags with their next_state values, and
\* ENTITY_ID.  Unchanged entities and entities of state alone give no entry.
C6_Difference ==
    call.fn = "calculate_difference" =>
        /\ call.exc = ""
        /\ Len(Val(heap, call.ret).items) = Len(ChangedEntities)
        /\ \A j \in 1..Len(ChangedEntities) :
              /\ PairSet(Val(heap, call.ret).items[j])
                    = {<<k, GetItem(TagsOf(ChangedEntities[j]), k)>> :
                          k \in ChangedTags(ChangedEntities[j]) \cup {IdKey}}
              /\ Cardinality(PairSet(Val(heap, call.ret).items[j]))
                    = Len(Val(heap, call.ret).items[j].items)

\* A call on two states of two entities each that left an unchanged entity out
\* and reported the one changed tag of the other, of three, with its ENTITY_ID.
C6_Witness ==
    /\ call.fn = "calculate_difference" /\ call.exc = ""
    /\ Len(GivenOld) = 2 /\ Len(GivenNew) = 2
    /\ Len(Val(heap, call.ret).items) = 1
    /\ Len(TagsOf(ChangedEntities[1]).items) = 3
    /\ Len(Val(heap, call.ret).items[1].items) = 2

---------------------------------------------------------------------------
(* preprocess_input *)

Punctuation == {"\"", "'", "{", "}", "[", "]", ":", ","}

\* C7: the text preprocess_input returns has no upper-case letter, no quote,
\* brace, bracket, colon or comma, and no "<" with a ">" after it.
C7_Flattened ==
    call.fn = "preprocess_input" =>
        /\ \A i \in 1..Len(call.ret) :
              ~IsUpper(call.ret[i]) /\ call.ret[i] \notin Punctuation
        /\ ~\E i, j \in 1..Len(call.ret) :
              i < j /\ call.ret[i] = "<" /\ call.ret[j] = ">"

\* An item whose JSON has an upper-case letter, punctuation and a "<" with a ">"
\* after it, and whose text is not empty.
C7_Witness ==
    /\ call.fn = "preprocess_input"
    /\ call.ret # <<>>
    /\ \E i, j, k \in 1..Len(JsonDumps(heap, data)) :
          /\ JsonDumps(heap, data)[i] = "A"
          /\ j < k
          /\ JsonDumps(heap, data)[j] = "<"
          /\ JsonDumps(heap, data)[k] = ">"

---------------------------------------------------------------------------
(* tokenize_data and check_data on the collated recording *)

\* The next-state text of the j-th item of a tokenize_data or check_data result
EncodedNextState(j) ==
    IF call.fn = "tokenize_data" THEN call.ret[j].next_state ELSE call.ret[j][3]

\* The state text of the j-th item: the action text followed by the state text
EncodedState(j) ==
    IF call.fn = "tokenize_data" THEN call.ret[j].state ELSE call.ret[j][1]

EncodedAction(j) ==
    IF call.fn = "tokenize_data" THEN call.ret[j].action ELSE call.ret[j][2]

\* calculate_difference(preprocess_state(state, option, strip=False),
\*                      preprocess_state(next_state, next_option, strip=False))
\* of the transition t, flattened
DifferenceText(t) ==
    LET Flat(d) == IF d.exc = "" THEN preprocess_input(d.heap, d.ret) ELSE <<d.exc>>
        Both(a, b) == Flat(calculate_difference(b.heap, a.ret, b.ret))
        One(a) == Both(a, preprocess_state(a.heap, t.next_state, t.next_option, FALSE))
    IN  One(preprocess_state(heap, t.state, t.option, FALSE))

\* C2: with difference=True, tokenize_data and check_data complete without
\* raising, also when a state or next state keeps an entity after filtering, and
\* the next-state text they encode is that of the difference of the two states.
C2_DifferenceEncoded ==
    (call.fn \in {"tokenize_data", "check_data"} /\ difference) =>
        /\ call.exc = ""
        /\ Len(call.ret) = Len(sequence_data.items)
        /\ \A j \in 1..Len(call.ret) :
              EncodedNextState(j) = DifferenceText(sequence_data.items[j])

\* C10: no call modifies the loaded recording: the data still reads as the file
\* does, every collated tuple holds the states, action and options of its pair,
\* and a state is flattened to the same text as the next state of one
\* transition and as the state of the following one.
C10_DataUnchanged ==
    /\ data # None => Val(heap, data) = file
    /\ sequence_data # None =>
          /\ Len(sequence_data.items) = Len(EmittedPairs)
          /\ \A j \in 1..Len(sequence_data.items) :
                /\ j <= Len(EmittedPairs)
                /\ Val(heap, sequence_data.items[j].state)
                      = FileField(S_state)[EmittedPairs[j] + 1]
                /\ Val(heap, sequence_data.items[j].action)
                      = FileField(S_action)[EmittedPairs[j] + 1]
                /\ Val(heap, sequence_data.items[j].next_state)
                      = FileField(S_state)[EmittedPairs[j] + 2]
                /\ Val(heap, sequence_data.items[j].option)
                      = FileField(S_option)[EmittedPairs[j] + 1]
                /\ Val(heap, sequence_data.items[j].next_option)
                      = FileField(S_option)[EmittedPairs[j] + 2]
    /\ (call.fn \in {"tokenize_data", "check_data"} /\ ~difference) =>
          /\ call.exc = ""
          /\ Len(call.ret) = Len(EmittedPairs)
          /\ \A j \in 1..(Len(call.ret) - 1) :
                (j + 1 <= Len(EmittedPairs) /\ EmittedPairs[j + 1] = EmittedPairs[j] + 1)
                    => EncodedState(j + 1) = EncodedAction(j + 1) \o EncodedNextState(j)

\* A tokenization without difference, after the collation, of two transitions in
\* a row of a recording whose middle state keeps an entity: the state was
\* preprocessed twice.
C10_Witness ==
    /\ call.fn \in {"tokenize_data", "check_data"} /\ ~difference
    /\ call.exc = ""
    /\ ncalls >= 2
    /\ Len(call.ret) >= 2
    /\ EmittedPairs[2] = EmittedPairs[1] + 1
    /\ EncodedNextState(1) # <<>>

=============================================================================
